---- MODULE Spec2Model ----
(***************************************************************************)
(* State-machine model of src/sync.py: the daemon loop (main), one sync    *)
(* cycle (sync_process), the repository mirror (clone_or_pull_repository), *)
(* the extension filter (is_allowed_extension) and the two-call uploader   *)
(* (upload_to_webui / add_file_to_knowledge).                              *)
(*                                                                         *)
(* Character strings that the code inspects (file names, paths, allow-list *)
(* entries) are sequences of one-character strings, so that endswith and   *)
(* the substring test are computed and not assumed.                        *)
(***************************************************************************)
EXTENDS Integers, Sequences, FiniteSets, TLC

VARIABLES
    entry,               \* the function the run starts in: "main" or "clone_or_pull_repository"
    pc,                  \* position of the single thread of control
    REPO_URL,            \* sync.py:19 ("" stands for unset or empty: both are falsy)
    GITHUB_USERNAME,     \* sync.py:18
    GITHUB_TOKEN,        \* sync.py:17
    ALLOWED_EXTENSIONS,  \* sync.py:29, a list of strings
    dirExists,           \* SYNC_DIRECTORY exists on disk
    gitMeta,             \* SYNC_DIRECTORY/.git exists on disk
    files,               \* ordinary (non-metadata) files under SYNC_DIRECTORY, by index
    cmds,                \* external commands run by the current clone_or_pull_repository call
    repo_synced,         \* sync.py:176: "unset" before the call returned, then "True" or "False"
    remaining,           \* files os.walk has not yielded yet in this cycle
    file,                \* the file the loop body is working on (0: none)
    filename,            \* argument of the last is_allowed_extension call
    allowed,             \* result of the last is_allowed_extension call
    files_uploaded,      \* sync.py:183/194
    handed,              \* files handed to upload_to_webui in this cycle
    request,             \* the HTTP call in flight, or NoRequest
    response,            \* sync.py:146, reply to the last upload call, or NoResponse
    exc,                 \* the exception propagating, or NoExc
    failed,              \* files whose attempt failed in this cycle
    prevFailed,          \* files whose attempt failed in the previous cycle
    mirror_calls,        \* calls of clone_or_pull_repository in this cycle
    calls,               \* HTTP calls issued for the file at hand, by endpoint
    slept,               \* seconds slept since the last cycle began
    command,             \* run_command on its own: exit status and output of the command
    hide_output,         \* run_command on its own: the hide_output argument
    returned             \* run_command on its own: what the call returned or raised

vars == << entry, pc, REPO_URL, GITHUB_USERNAME, GITHUB_TOKEN, ALLOWED_EXTENSIONS,
           dirExists, gitMeta, files, cmds, repo_synced, remaining, file, filename,
           allowed, files_uploaded, handed, request, response, exc, failed, prevFailed,
           mirror_calls, calls, slept, command, hide_output, returned >>

config == << entry, REPO_URL, GITHUB_USERNAME, GITHUB_TOKEN, ALLOWED_EXTENSIONS >>
disk   == << dirExists, gitMeta, files >>
scan   == << remaining, file, filename, allowed, files_uploaded, handed >>
http   == << request, response >>
ghost  == << failed, prevFailed >>
counts == << mirror_calls, calls, slept >>
shell  == << command, hide_output, returned >>

(***************************************************************************)
(* Bounds of the model.                                                    *)
(***************************************************************************)
NumFiles   == 3     \* ordinary files that may exist under the mirror directory
MaxNameLen == 3     \* longest file name of the filter's own specification
MaxExts    == 2     \* longest allow-list of the filter's own specification

(***************************************************************************)
(* Strings.                                                                *)
(***************************************************************************)
endswith(s, suffix) ==
    /\ Len(suffix) <= Len(s)
    /\ SubSeq(s, Len(s) - Len(suffix) + 1, Len(s)) = suffix

\* Python's `needle in haystack` on strings
contains(haystack, needle) ==
    \E i \in 0..(Len(haystack) - Len(needle)) :
        SubSeq(haystack, i + 1, i + Len(needle)) = needle

DOT_GIT == << ".", "g", "i", "t" >>
SEP     == << "/" >>

\* os.path.join(a, b) for a relative b and an a that does not end in a separator
path_join(a, b) == a \o SEP \o b

SYNC_DIRECTORY == << "/", "d" >>
KNOWLEDGE_ID   == "kb"
DefaultExtensions == << << ".", "m", "d" >>, << ".", "t", "x", "t" >> >>

\* The files that may exist under the mirror directory: the directory os.walk
\* reports them in, relative to SYNC_DIRECTORY, and their name.
FileTable ==
    << [root |-> << >>,            name |-> << "a", ".", "m", "d" >>],
       [root |-> << "/", "s" >>,   name |-> << "c", ".", "t", "x", "t" >>],
       [root |-> << >>,            name |-> << "b", ".", "p", "y" >>],
       [root |-> << >>,            name |-> << "e", ".", "g", "i", "t", "x", ".", "m", "d" >>],
       [root |-> << "/", "s" >>,   name |-> << "R", ".", "M", "D" >>] >>

Files == 1..NumFiles
\* Index 0 is the metadata file SYNC_DIRECTORY/.git/i.md, present iff gitMeta.
MetaFile == 0
FileRec(f) ==
    IF f = MetaFile
    THEN [root |-> SEP \o DOT_GIT, name |-> << "i", ".", "m", "d" >>]
    ELSE FileTable[((f - 1) % Len(FileTable)) + 1]

walk_root(f) == SYNC_DIRECTORY \o FileRec(f).root
walk_name(f) == FileRec(f).name
OnDisk == files \cup (IF gitMeta THEN {MetaFile} ELSE {})

(***************************************************************************)
(* Exceptions: the classes the code can meet, with Python's and requests'  *)
(* subclass relation (requests.exceptions.RequestException is an IOError,  *)
(* that is an OSError; KeyError is a LookupError).                         *)
(***************************************************************************)
ParentClass ==
    [ Exception          |-> "BaseException",
      OSError            |-> "Exception",
      PermissionError    |-> "OSError",
      FileNotFoundError  |-> "OSError",
      RequestException   |-> "OSError",
      ConnectionError    |-> "RequestException",
      HTTPError          |-> "RequestException",
      JSONDecodeError    |-> "RequestException",
      ValueError         |-> "Exception",
      KeyError           |-> "Exception",
      CalledProcessError |-> "Exception" ]

RECURSIVE IsInstance(_, _)
IsInstance(type, class) ==
    IF type = class THEN TRUE
    ELSE IF type \in DOMAIN ParentClass THEN IsInstance(ParentClass[type], class)
    ELSE FALSE

NoExc == [type |-> "none", origin |-> "none"]
Raise(type, origin) == [type |-> type, origin |-> origin]

(***************************************************************************)
(* is_allowed_extension, sync.py:132-134:                                  *)
(*     any(filename.endswith(ext) for ext in ALLOWED_EXTENSIONS)           *)
(* any() walks the list front to back and stops at the first true element. *)
(***************************************************************************)
RECURSIVE any_endswith(_, _, _)
any_endswith(name, exts, i) ==
    IF i > Len(exts) THEN FALSE
    ELSE IF endswith(name, exts[i]) THEN TRUE
    ELSE any_endswith(name, exts, i + 1)

\* a plausible slip: only the first entry of the list is consulted
is_allowed_extension_first_only(name) ==
    Len(ALLOWED_EXTENSIONS) > 0 /\ endswith(name, ALLOWED_EXTENSIONS[1])

is_allowed_extension(name) == any_endswith(name, ALLOWED_EXTENSIONS, 1)

\* sync.py:186-188: the path the loop builds and the marker test on it
file_path(f)  == path_join(walk_root(f), walk_name(f))
is_git_path(f) == contains(file_path(f), DOT_GIT)

(***************************************************************************)
(* run_command, sync.py:31-53: check=True turns a non-zero exit status     *)
(* into subprocess.CalledProcessError, which is logged and re-raised.      *)
(***************************************************************************)
ExitCodes == {0, 1}
run_command(rc) == IF rc = 0 THEN "none" ELSE "CalledProcessError"

(***************************************************************************)
(* get_authenticated_repo_url, sync.py:72-86.  urlparse is modelled on the *)
(* URLs of the model: it raises ValueError on an unbalanced IPv6 bracket.  *)
(***************************************************************************)
GoodUrl == "https://h/r"
BadUrl  == "https://[h/r"
RepoUrls == {"", GoodUrl, BadUrl}

urlparse(url) ==
    IF url = GoodUrl THEN [raised |-> "none", netloc |-> "h", path |-> "/r"]
    ELSE [raised |-> "ValueError", netloc |-> "", path |-> ""]

\* str() of a configuration value inside an f-string: an unset value prints None
fstr(v) == IF v = "" THEN "None" ELSE v

get_authenticated_repo_url ==
    IF REPO_URL = "" THEN [raised |-> "ValueError", url |-> ""]
    ELSE IF GITHUB_TOKEN # ""
         THEN LET parsed_url == urlparse(REPO_URL) IN
              IF parsed_url.raised # "none"
              THEN [raised |-> parsed_url.raised, url |-> ""]
              ELSE [raised |-> "none",
                    url |-> "https://" \o fstr(GITHUB_USERNAME) \o ":" \o GITHUB_TOKEN
                            \o "@" \o parsed_url.netloc \o parsed_url.path]
         ELSE [raised |-> "none", url |-> REPO_URL]

(***************************************************************************)
(* The knowledge service's replies.  Response.raise_for_status raises      *)
(* HTTPError for a status in 400..599 and for no other status.             *)
(***************************************************************************)
StatusCodes == {201, 300, 404, 500}
FileIds     == {"xyz", "abc"}
\* a reply's body: a JSON object with an id, a JSON object without one, or no JSON
Bodies      == [kind : {"id"}, id : FileIds]
                 \cup {[kind |-> "noid", id |-> ""], [kind |-> "notjson", id |-> ""]}
\* Response.json() on a body that is no JSON raises requests' JSONDecodeError
\* (requests >= 2.27) or a plain ValueError (older releases)
JsonErrors  == {"JSONDecodeError", "ValueError"}

NoRequest  == [endpoint |-> "none", collection |-> "", file_id |-> "", file |-> -1]
NoResponse == [status_code |-> 0, body |-> [kind |-> "none", id |-> ""], file |-> -1]

raise_for_status(status_code) ==
    IF 400 <= status_code /\ status_code < 600 THEN "HTTPError" ELSE "none"

\* no HTTP call issued yet for the file at hand
NoCalls   == [upload |-> 0, register |-> 0]
\* run_command is not the entry of the run: no command, nothing returned
NoCommand == [returncode |-> 0, stdout |-> << >>]
NoReturn  == [raised |-> "none", value |-> << >>, returncode |-> 0]

(***************************************************************************)
(* Initial states: the configuration read at import (sync.py:17-29) and    *)
(* the disk as the process finds it.  A run starts in main (sync.py:217)   *)
(* or, for the mirror operation on its own, in clone_or_pull_repository.   *)
(***************************************************************************)
Init ==
    /\ entry \in {"main", "clone_or_pull_repository"}
    /\ pc = (IF entry = "main" THEN "main_loop" ELSE "cp_entry")
    /\ REPO_URL \in RepoUrls
    /\ GITHUB_USERNAME \in {"", "u"}
    /\ GITHUB_TOKEN \in {"", "t"}
    /\ ALLOWED_EXTENSIONS = DefaultExtensions
    /\ dirExists \in BOOLEAN
    /\ gitMeta \in BOOLEAN
    /\ files \in SUBSET Files
    /\ (gitMeta \/ files # {}) => dirExists
    /\ cmds = << >>
    /\ repo_synced = "unset"
    /\ remaining = {}
    /\ file = -1
    /\ filename = << >>
    /\ allowed = FALSE
    /\ files_uploaded = 0
    /\ handed = {}
    /\ request = NoRequest
    /\ response = NoResponse
    /\ exc = NoExc
    /\ failed = {}
    /\ prevFailed = {}
    /\ mirror_calls = 0
    /\ calls = NoCalls
    /\ slept = 0
    /\ command = NoCommand
    /\ hide_output = FALSE
    /\ returned = NoReturn

(***************************************************************************)
(* main, sync.py:202-214.                                                  *)
(***************************************************************************)
\* sync.py:206-208: the loop head enters the try block and calls sync_process
main_call_sync_process ==
    /\ pc = "main_loop"
    /\ pc' = "sp_ensure"
    /\ cmds' = << >>
    /\ repo_synced' = "unset"
    /\ remaining' = {}
    /\ file' = -1
    /\ files_uploaded' = 0
    /\ handed' = {}
    /\ prevFailed' = failed
    /\ failed' = {}
    /\ mirror_calls' = 0
    /\ calls' = NoCalls
    /\ slept' = 0
    /\ UNCHANGED << config, shell, disk, filename, allowed, http, exc >>

\* sync.py:209: which exception types the clause `except Exception` takes
main_catches_requests_only(type) == IsInstance(type, "RequestException")

main_catches(type) == IsInstance(type, "Exception")

\* a plausible slip: the handler goes straight on to the next iteration (`continue`)
main_except_continue ==
    /\ pc = "main_except"
    /\ IF main_catches(exc.type)
       THEN pc' = "main_loop" /\ exc' = NoExc
       ELSE pc' = "exited" /\ exc' = exc
    /\ UNCHANGED << config, shell, counts, disk, cmds, repo_synced, scan, http, ghost >>

\* sync.py:209-210: the loop's handler; an exception it does not take ends the process
main_except ==
    /\ pc = "main_except"
    /\ IF main_catches(exc.type)
       THEN pc' = "main_sleep" /\ exc' = NoExc
       ELSE pc' = "exited" /\ exc' = exc
    /\ UNCHANGED << config, shell, counts, disk, cmds, repo_synced, scan, http, ghost >>

\* sync.py:26, the default of SYNC_INTERVAL, in seconds
SYNC_INTERVAL == 3600

\* time.sleep raises ValueError for a negative length and returns otherwise
time_sleep(secs) == IF secs < 0 THEN "ValueError" ELSE "none"

\* sync.py:212-214: time.sleep(SYNC_INTERVAL), outside the try block, then the
\* next iteration
main_sleep ==
    /\ pc = "main_sleep"
    /\ IF time_sleep(SYNC_INTERVAL) = "none"
       THEN pc' = "main_loop" /\ exc' = exc /\ slept' = slept + SYNC_INTERVAL
       ELSE /\ pc' = "exited" /\ exc' = Raise(time_sleep(SYNC_INTERVAL), "time.sleep")
            /\ slept' = slept
    /\ UNCHANGED << config, shell, mirror_calls, calls, disk, cmds, repo_synced, scan, http, ghost >>

(***************************************************************************)
(* ensure_directory, sync.py:88-98: os.makedirs(exist_ok=True) either      *)
(* leaves the directory in place or raises; both handlers log and re-raise.*)
(***************************************************************************)
MakedirsOutcomes == {"none", "PermissionError", "OSError"}

ensure_directory(outcome, returns_to, raises_to) ==
    IF outcome = "none"
    THEN /\ dirExists' = TRUE
         /\ pc' = returns_to
         /\ exc' = exc
    ELSE /\ dirExists' = dirExists
         /\ pc' = raises_to
         /\ exc' = Raise(outcome, "ensure_directory")

(***************************************************************************)
(* sync_process, sync.py:169-200.                                          *)
(***************************************************************************)
\* sync.py:173
sync_process_ensure_directory ==
    /\ pc = "sp_ensure"
    /\ \E outcome \in MakedirsOutcomes : ensure_directory(outcome, "cp_entry", "sp_except")
    /\ UNCHANGED << config, shell, counts, gitMeta, files, cmds, repo_synced, scan, http, ghost >>

(***************************************************************************)
(* clone_or_pull_repository, sync.py:100-130.                              *)
(***************************************************************************)
\* the function returns to sync_process (sync.py:176) or to its direct caller
clone_or_pull_return(value) ==
    /\ repo_synced' = (IF value THEN "True" ELSE "False")
    /\ pc' = (IF entry = "main" THEN "sp_after_mirror" ELSE "returned")

\* a plausible slip: the directory is prepared before the URL is looked at
clone_or_pull_check_url_after_mkdir ==
    /\ pc = "cp_entry"
    /\ dirExists' = TRUE
    /\ IF REPO_URL = ""
       THEN clone_or_pull_return(FALSE)
       ELSE pc' = "cp_configure" /\ repo_synced' = repo_synced
    /\ mirror_calls' = mirror_calls + 1
    /\ UNCHANGED << config, shell, calls, slept, gitMeta, files, cmds, scan, http, exc, ghost >>

\* sync.py:103-108
clone_or_pull_check_url ==
    /\ pc = "cp_entry"
    /\ IF REPO_URL = ""
       THEN clone_or_pull_return(FALSE)
       ELSE pc' = "cp_configure" /\ repo_synced' = repo_synced
    /\ mirror_calls' = mirror_calls + 1
    /\ UNCHANGED << config, shell, calls, slept, disk, cmds, scan, http, exc, ghost >>

\* configure_git_credentials, sync.py:55-70: the commands it runs and its result,
\* given the exit status of each; its handler takes every Exception
configure_git_credentials(rc1, rc2) ==
    LET name  == [cmd |-> "git config user.name",  arg |-> GITHUB_USERNAME, rc |-> rc1]
        email == [cmd |-> "git config user.email", arg |-> GITHUB_USERNAME, rc |-> rc2]
    IN  IF GITHUB_USERNAME = "" \/ GITHUB_TOKEN = ""
        THEN [ret |-> FALSE, ran |-> << >>]
        ELSE IF IsInstance(run_command(rc1), "Exception")
        THEN [ret |-> FALSE, ran |-> << name >>]
        ELSE IF IsInstance(run_command(rc2), "Exception")
        THEN [ret |-> FALSE, ran |-> << name, email >>]
        ELSE [ret |-> TRUE, ran |-> << name, email >>]

\* sync.py:108: the result is dropped
clone_or_pull_configure ==
    /\ pc = "cp_configure"
    /\ \E rc1, rc2 \in ExitCodes : cmds' = cmds \o configure_git_credentials(rc1, rc2).ran
    /\ pc' = "cp_ensure"
    /\ UNCHANGED << config, shell, counts, disk, repo_synced, scan, http, exc, ghost >>

\* sync.py:110: outside the try block, so a failure leaves the function
clone_or_pull_ensure_directory ==
    /\ pc = "cp_ensure"
    /\ \E outcome \in MakedirsOutcomes :
          ensure_directory(outcome, "cp_try",
                           IF entry = "main" THEN "sp_except" ELSE "raised")
    /\ UNCHANGED << config, shell, counts, gitMeta, files, cmds, repo_synced, scan, http, ghost >>

\* a plausible slip: the metadata test is lost and every sync clones
mirror_exists_never == FALSE

\* sync.py:116, os.path.exists(os.path.join(SYNC_DIRECTORY, '.git'))
mirror_exists == gitMeta

\* The version-control client: `git clone <url> .` refuses a directory that is
\* not empty; a command that fails leaves the directory as it was.
GitExitCodes(cmd) ==
    IF cmd = "git clone" /\ OnDisk # {} THEN ExitCodes \ {0} ELSE ExitCodes

\* a plausible slip: the handler at sync.py:128 is lost, the failure is not reported
clone_or_pull_result_always(raised) == TRUE

\* sync.py:127-130: True after the try block, False from `except Exception`
clone_or_pull_result(raised) == ~IsInstance(raised, "Exception")

\* sync.py:112-130
clone_or_pull_try ==
    /\ pc = "cp_try"
    /\ LET authenticated_url == get_authenticated_repo_url
           cmd == IF mirror_exists THEN "git pull" ELSE "git clone"
       IN  IF authenticated_url.raised # "none"
           THEN /\ clone_or_pull_return(clone_or_pull_result(authenticated_url.raised))
                /\ UNCHANGED << cmds, disk >>
           ELSE \E rc \in GitExitCodes(cmd), tree \in SUBSET Files :
                /\ cmds' = Append(cmds, [cmd |-> cmd,
                                         arg |-> IF cmd = "git clone"
                                                 THEN authenticated_url.url ELSE "",
                                         rc  |-> rc])
                /\ IF rc = 0
                   THEN /\ gitMeta' = TRUE
                        /\ files' = tree
                   ELSE UNCHANGED << gitMeta, files >>
                /\ dirExists' = dirExists
                /\ clone_or_pull_return(clone_or_pull_result(run_command(rc)))
    /\ UNCHANGED << config, shell, counts, scan, http, exc, ghost >>

(***************************************************************************)
(* sync_process, continued: the scan loop, sync.py:179-196.                *)
(***************************************************************************)
\* a plausible slip: files that failed before are remembered and left out
os_walk_without_failed == OnDisk \ prevFailed

\* sync.py:184, os.walk(SYNC_DIRECTORY): every file under the directory, afresh
os_walk == OnDisk

\* sync.py:179-184: the warning, the counter, the start of os.walk
sync_process_start_walk ==
    /\ pc = "sp_after_mirror"
    /\ files_uploaded' = 0
    /\ remaining' = os_walk
    /\ pc' = "sp_loop"
    /\ UNCHANGED << config, shell, counts, disk, cmds, repo_synced, file, filename, allowed, handed,
                    http, exc, ghost >>

\* sync.py:185-193: os.walk yields the next file (in the order the directory
\* listing gives, which the code does not choose); the marker test; the filter
sync_process_next_file ==
    /\ pc = "sp_loop"
    /\ \E f \in remaining :
        /\ remaining' = remaining \ {f}
        /\ IF is_git_path(f)
           THEN /\ UNCHANGED << file, filename, allowed, handed >>
                /\ pc' = "sp_loop"
           ELSE /\ filename' = walk_name(f)
                /\ allowed' = is_allowed_extension(walk_name(f))
                /\ IF is_allowed_extension(walk_name(f))
                   THEN /\ file' = f
                        /\ handed' = handed \cup {f}
                        /\ pc' = "up_open"
                   ELSE /\ UNCHANGED << file, handed >>
                        /\ pc' = "sp_loop"
    /\ calls' = NoCalls
    /\ UNCHANGED << config, shell, mirror_calls, slept, disk, cmds, repo_synced, files_uploaded, http, exc,
                    ghost >>

\* a plausible slip: only the uploads that went through are counted
sync_process_count_successes ==
    /\ pc = "sp_count"
    /\ files_uploaded' = (IF file \in failed THEN files_uploaded ELSE files_uploaded + 1)
    /\ pc' = "sp_loop"
    /\ calls' = NoCalls
    /\ UNCHANGED << config, shell, mirror_calls, slept, disk, cmds, repo_synced, remaining, file,
                    filename, allowed, handed, http, exc, ghost >>

\* sync.py:194, after upload_to_webui returned
sync_process_count ==
    /\ pc = "sp_count"
    /\ files_uploaded' = files_uploaded + 1
    /\ pc' = "sp_loop"
    /\ calls' = NoCalls
    /\ UNCHANGED << config, shell, mirror_calls, slept, disk, cmds, repo_synced, remaining, file, filename,
                    allowed, handed, http, exc, ghost >>

\* sync.py:196: the walk is exhausted, the count is logged, the function returns
\* and its locals go out of scope
sync_process_completed ==
    /\ pc = "sp_loop"
    /\ remaining = {}
    /\ pc' = "sp_done"
    /\ file' = -1
    /\ filename' = << >>
    /\ allowed' = FALSE
    /\ response' = NoResponse
    /\ UNCHANGED << config, shell, counts, disk, cmds, repo_synced, remaining, files_uploaded, handed,
                    request, exc, ghost >>

\* back in main after a cycle that returned: on to the sleep (sync.py:212)
main_after_sync ==
    /\ pc = "sp_done"
    /\ pc' = "main_sleep"
    /\ UNCHANGED << config, shell, counts, disk, cmds, repo_synced, scan, http, exc, ghost >>

\* a plausible slip: the handler logs the exception and does not re-raise it
sync_process_except_swallow ==
    /\ pc = "sp_except"
    /\ pc' = "sp_done"
    /\ exc' = NoExc
    /\ remaining' = {}
    /\ file' = -1
    /\ filename' = << >>
    /\ allowed' = FALSE
    /\ response' = NoResponse
    /\ calls' = NoCalls
    /\ UNCHANGED << config, shell, mirror_calls, slept, disk, cmds, repo_synced, files_uploaded,
                    handed, request, ghost >>

\* sync.py:198-200: log and re-raise to main; the locals go out of scope
sync_process_except ==
    /\ pc = "sp_except"
    /\ pc' = "main_except"
    /\ remaining' = {}
    /\ file' = -1
    /\ filename' = << >>
    /\ allowed' = FALSE
    /\ response' = NoResponse
    /\ calls' = NoCalls
    /\ UNCHANGED << config, shell, mirror_calls, slept, disk, cmds, repo_synced, files_uploaded, handed,
                    request, exc, ghost >>

(***************************************************************************)
(* upload_to_webui, sync.py:136-152, and add_file_to_knowledge, 154-167.   *)
(***************************************************************************)
\* sync.py:151: `except requests.exceptions.RequestException`
upload_to_webui_catches(type) == IsInstance(type, "RequestException")

\* a plausible slip: the call that failed is given up without being ended, and
\* stays in flight while the program goes on
upload_to_webui_raise_pending(type, origin) ==
    /\ failed' = failed \cup {file}
    /\ request' = request
    /\ IF upload_to_webui_catches(type)
       THEN pc' = "sp_count" /\ exc' = exc
       ELSE pc' = "sp_except" /\ exc' = Raise(type, origin)

\* An exception raised inside the try block of upload_to_webui: the handler logs it
\* and the function returns, or it leaves the function and reaches sync.py:198.
upload_to_webui_raise(type, origin) ==
    /\ failed' = failed \cup {file}
    /\ request' = NoRequest
    /\ IF upload_to_webui_catches(type)
       THEN pc' = "sp_count" /\ exc' = exc
       ELSE pc' = "sp_except" /\ exc' = Raise(type, origin)

OpenOutcomes == {"none", "FileNotFoundError", "PermissionError"}

\* sync.py:144-146: open the file, then issue the upload call
upload_to_webui_open ==
    /\ pc = "up_open"
    /\ \E outcome \in OpenOutcomes :
          IF outcome = "none"
          THEN /\ request' = [endpoint |-> "/api/v1/files/", collection |-> "",
                              file_id |-> "", file |-> file]
               /\ calls' = [calls EXCEPT !.upload = @ + 1]
               /\ pc' = "up_post"
               /\ UNCHANGED << exc, failed >>
          ELSE upload_to_webui_raise(outcome, "open") /\ calls' = calls
    /\ response' = NoResponse
    /\ UNCHANGED << config, shell, mirror_calls, slept, disk, cmds, repo_synced, scan, prevFailed >>

\* sync.py:147-150 on a reply: what is raised before add_file_to_knowledge is called
upload_reply_raises(status_code, body, json_error) ==
    IF raise_for_status(status_code) # "none" THEN raise_for_status(status_code)
    ELSE IF body.kind = "notjson" THEN json_error
    ELSE IF body.kind = "noid" THEN "KeyError"
    ELSE "none"

\* a plausible slip: the identifier sent is not the one just received
registration_id_fixed(body) == "xyz"

\* sync.py:149-150 and 161: file_info['id'] becomes the file_id of the call
registration_id(body) == body.id

\* sync.py:146-150: the upload call fails in transport or is answered; on an
\* answer that passes the checks the registration call is issued (sync.py:163)
upload_to_webui_reply ==
    /\ pc = "up_post"
    /\ \/ /\ upload_to_webui_raise("ConnectionError", "requests.post")
          /\ response' = NoResponse
          /\ calls' = calls
       \/ \E status_code \in StatusCodes, body \in Bodies, json_error \in JsonErrors :
          /\ response' = [status_code |-> status_code, body |-> body, file |-> file]
          /\ IF upload_reply_raises(status_code, body, json_error) # "none"
             THEN /\ upload_to_webui_raise(upload_reply_raises(status_code, body, json_error),
                                           "upload reply")
                  /\ calls' = calls
             ELSE /\ request' = [endpoint |-> "/api/v1/knowledge/{id}/file/add",
                                 collection |-> KNOWLEDGE_ID,
                                 file_id |-> registration_id(body), file |-> file]
                  /\ calls' = [calls EXCEPT !.register = @ + 1]
                  /\ pc' = "add_post"
                  /\ UNCHANGED << exc, failed >>
    /\ UNCHANGED << config, shell, mirror_calls, slept, disk, cmds, repo_synced, scan, prevFailed >>

\* sync.py:166: `except requests.exceptions.RequestException`
add_file_to_knowledge_catches(type) == IsInstance(type, "RequestException")

\* a plausible slip: a file that was registered is removed from the mirror directory
add_file_to_knowledge_reply_unlinks ==
    /\ pc = "add_post"
    /\ \E raised \in {"ConnectionError"} \cup {raise_for_status(c) : c \in StatusCodes} :
          /\ failed' = (IF raised = "none" THEN failed ELSE failed \cup {file})
          /\ files' = (IF raised = "none" THEN files \ {file} ELSE files)
          /\ IF raised = "none" \/ add_file_to_knowledge_catches(raised)
             THEN pc' = "sp_count" /\ exc' = exc
             ELSE pc' = "sp_except" /\ exc' = Raise(raised, "add_file_to_knowledge")
    /\ request' = NoRequest
    /\ response' = response
    /\ UNCHANGED << config, shell, counts, dirExists, gitMeta, cmds, repo_synced, scan, prevFailed >>

\* sync.py:163-167: the registration call fails in transport or is answered; every
\* failure is logged inside add_file_to_knowledge, which returns to sync.py:150
add_file_to_knowledge_reply ==
    /\ pc = "add_post"
    /\ \E raised \in {"ConnectionError"} \cup {raise_for_status(c) : c \in StatusCodes} :
          /\ failed' = (IF raised = "none" THEN failed ELSE failed \cup {file})
          /\ IF raised = "none" \/ add_file_to_knowledge_catches(raised)
             THEN pc' = "sp_count" /\ exc' = exc
             ELSE pc' = "sp_except" /\ exc' = Raise(raised, "add_file_to_knowledge")
    /\ request' = NoRequest
    /\ response' = response
    /\ UNCHANGED << config, shell, counts, disk, cmds, repo_synced, scan, prevFailed >>

(***************************************************************************)
(* The program.                                                            *)
(***************************************************************************)
Next ==
    \/ main_call_sync_process
    \/ main_after_sync
    \/ main_except
    \/ main_sleep
    \/ sync_process_ensure_directory
    \/ sync_process_start_walk
    \/ sync_process_next_file
    \/ sync_process_count
    \/ sync_process_completed
    \/ sync_process_except
    \/ clone_or_pull_check_url
    \/ clone_or_pull_configure
    \/ clone_or_pull_ensure_directory
    \/ clone_or_pull_try
    \/ upload_to_webui_open
    \/ upload_to_webui_reply
    \/ add_file_to_knowledge_reply

Spec == Init /\ [][Next]_vars

\* The single thread always takes its next step: external commands, HTTP calls
\* and the sleep are taken to return.
FairSpec == Spec /\ WF_vars(Next)

(***************************************************************************)
(* The extension filter on its own: is_allowed_extension called with any   *)
(* file name under any allow-list, and again under the same list in        *)
(* another order.                                                          *)
(***************************************************************************)
FilterChars == {".", "m", "M"}
\* the strings an allow-list of this specification is made of
FilterExts  == { << >>, << "m" >>, << ".", "m" >>, << ".", "M" >>, << "m", "m" >> }

SeqsUpTo(S, n) == UNION {[1..k -> S] : k \in 0..n}

Reorderings(n) == {p \in [1..n -> 1..n] : \A i, j \in 1..n : p[i] = p[j] => i = j}

InitFilter ==
    /\ entry = "is_allowed_extension"
    /\ pc = "filter_call"
    /\ ALLOWED_EXTENSIONS \in SeqsUpTo(FilterExts, MaxExts)
    /\ filename \in SeqsUpTo(FilterChars, MaxNameLen)
    /\ allowed = FALSE
    /\ REPO_URL = ""
    /\ GITHUB_USERNAME = ""
    /\ GITHUB_TOKEN = ""
    /\ dirExists = FALSE
    /\ gitMeta = FALSE
    /\ files = {}
    /\ cmds = << >>
    /\ repo_synced = "unset"
    /\ remaining = {}
    /\ file = -1
    /\ files_uploaded = 0
    /\ handed = {}
    /\ request = NoRequest
    /\ response = NoResponse
    /\ exc = NoExc
    /\ failed = {}
    /\ prevFailed = {}
    /\ mirror_calls = 0
    /\ calls = NoCalls
    /\ slept = 0
    /\ command = NoCommand
    /\ hide_output = FALSE
    /\ returned = NoReturn

\* sync.py:192, the call
is_allowed_extension_call ==
    /\ pc = "filter_call"
    /\ allowed' = is_allowed_extension(filename)
    /\ pc' = "filter_done"
    /\ UNCHANGED << config, shell, counts, disk, cmds, repo_synced, remaining, file, filename,
                    files_uploaded, handed, http, exc, ghost >>

\* sync.py:29 with the same entries configured in another order, then the call
is_allowed_extension_reordered ==
    /\ pc = "filter_done"
    /\ \E p \in Reorderings(Len(ALLOWED_EXTENSIONS)) :
          ALLOWED_EXTENSIONS' = [i \in 1..Len(ALLOWED_EXTENSIONS) |-> ALLOWED_EXTENSIONS[p[i]]]
    /\ filename' = filename
    /\ allowed' = is_allowed_extension(filename)'
    /\ pc' = "filter_done"
    /\ UNCHANGED << shell, counts, entry, REPO_URL, GITHUB_USERNAME, GITHUB_TOKEN, disk, cmds, repo_synced,
                    remaining, file, files_uploaded, handed, http, exc, ghost >>

NextFilter == is_allowed_extension_call \/ is_allowed_extension_reordered

SpecFilter == InitFilter /\ [][NextFilter]_vars

(***************************************************************************)
(* run_command on its own, sync.py:31-53: called with any exit status and  *)
(* any output of the command, with and without hide_output.                *)
(***************************************************************************)
MaxOutLen == 3     \* longest output of a command
OutChars  == {" ", "o"}
Whitespace == {" "}

\* str.strip(): leading and trailing whitespace removed
RECURSIVE lstrip(_)
lstrip(s) == IF s # << >> /\ Head(s) \in Whitespace THEN lstrip(Tail(s)) ELSE s
RECURSIVE rstrip(_)
rstrip(s) ==
    IF s # << >> /\ s[Len(s)] \in Whitespace THEN rstrip(SubSeq(s, 1, Len(s) - 1)) ELSE s
strip(s) == rstrip(lstrip(s))

\* sync.py:41-48, subprocess.run(..., capture_output=hide_output, text=True): the
\* output is in result.stdout only when it was captured, and is None otherwise
subprocess_run(cmd, capture_output) ==
    [returncode |-> cmd.returncode,
     stdout     |-> IF capture_output THEN [none |-> FALSE, text |-> cmd.stdout]
                                      ELSE [none |-> TRUE,  text |-> << >>]]

\* sync.py:40-53: the value of the conditional expression at sync.py:49, or the
\* CalledProcessError of check=True, re-raised at sync.py:53 with its exit status
run_command_result(cmd, hide) ==
    LET result == subprocess_run(cmd, hide)
        truthy == ~result.stdout.none /\ result.stdout.text # << >>
    IN  IF run_command(result.returncode) # "none"
        THEN [raised |-> run_command(result.returncode), value |-> << >>,
              returncode |-> result.returncode]
        ELSE [raised |-> "none",
              value  |-> IF truthy /\ ~hide THEN strip(result.stdout.text) ELSE << >>,
              returncode |-> 0]

InitCommand ==
    /\ entry = "run_command"
    /\ pc = "run_call"
    /\ command \in [returncode : ExitCodes, stdout : SeqsUpTo(OutChars, MaxOutLen)]
    /\ hide_output \in BOOLEAN
    /\ returned = NoReturn
    /\ ALLOWED_EXTENSIONS = DefaultExtensions
    /\ REPO_URL = ""
    /\ GITHUB_USERNAME = ""
    /\ GITHUB_TOKEN = ""
    /\ dirExists = FALSE
    /\ gitMeta = FALSE
    /\ files = {}
    /\ cmds = << >>
    /\ repo_synced = "unset"
    /\ remaining = {}
    /\ file = -1
    /\ filename = << >>
    /\ allowed = FALSE
    /\ files_uploaded = 0
    /\ handed = {}
    /\ request = NoRequest
    /\ response = NoResponse
    /\ exc = NoExc
    /\ failed = {}
    /\ prevFailed = {}
    /\ mirror_calls = 0
    /\ calls = NoCalls
    /\ slept = 0

\* the call and its return or raise
run_command_call ==
    /\ pc = "run_call"
    /\ returned' = run_command_result(command, hide_output)
    /\ pc' = "run_done"
    /\ UNCHANGED << config, command, hide_output, counts, disk, cmds, repo_synced, scan, http,
                    exc, ghost >>

NextCommand == run_command_call

SpecCommand == InitCommand /\ [][NextCommand]_vars

(***************************************************************************)
(* The program under an ALLOWED_EXTENSIONS value that yields an empty      *)
(* entry: sync.py:29 splits the value at every comma and keeps what lies   *)
(* between, empty or not.                                                  *)
(***************************************************************************)
COMMA == ","

\* str.split(sep) for a separator of one character
RECURSIVE str_split(_, _)
str_split(s, sep) ==
    IF \A i \in 1..Len(s) : s[i] # sep
    THEN << s >>
    ELSE LET i == CHOOSE k \in 1..Len(s) : s[k] = sep /\ \A j \in 1..(k - 1) : s[j] # sep
         IN  << SubSeq(s, 1, i - 1) >> \o str_split(SubSeq(s, i + 1, Len(s)), sep)

\* values of the environment variable: empty, a trailing comma, a leading comma,
\* a doubled comma
EmptyEntryValues ==
    { << >>,
      << ".", "m", "d", "," >>,
      << ",", ".", "m", "d" >>,
      << ".", "m", "d", ",", ",", ".", "t", "x", "t" >> }

InitEmptyEntry ==
    /\ entry = "main"
    /\ pc = "main_loop"
    /\ REPO_URL = GoodUrl
    /\ GITHUB_USERNAME = "u"
    /\ GITHUB_TOKEN = "t"
    /\ ALLOWED_EXTENSIONS \in {str_split(v, COMMA) : v \in EmptyEntryValues}
    /\ dirExists \in BOOLEAN
    /\ gitMeta \in BOOLEAN
    /\ files \in SUBSET Files
    /\ (gitMeta \/ files # {}) => dirExists
    /\ cmds = << >>
    /\ repo_synced = "unset"
    /\ remaining = {}
    /\ file = -1
    /\ filename = << >>
    /\ allowed = FALSE
    /\ files_uploaded = 0
    /\ handed = {}
    /\ request = NoRequest
    /\ response = NoResponse
    /\ exc = NoExc
    /\ failed = {}
    /\ prevFailed = {}
    /\ mirror_calls = 0
    /\ calls = NoCalls
    /\ slept = 0
    /\ command = NoCommand
    /\ hide_output = FALSE
    /\ returned = NoReturn

SpecEmptyEntry == InitEmptyEntry /\ [][Next]_vars

(***************************************************************************)
(* Vocabulary of the claims, stated without the code's operators.          *)
(***************************************************************************)
Range(seq) == {seq[i] : i \in DOMAIN seq}

\* s ends with e as a literal, case-sensitive suffix: s is some prefix followed by e
IsLiteralSuffix(e, s) == \E n \in 0..Len(s) : s = SubSeq(s, 1, n) \o e

\* the path of f has the marker .git somewhere in it
HasGitMarker(f) ==
    LET p == SYNC_DIRECTORY \o FileRec(f).root \o << "/" >> \o FileRec(f).name
    IN  \E i \in 1..Len(p) : \E j \in i..Len(p) : SubSeq(p, i, j) = << ".", "g", "i", "t" >>

\* an accepted candidate file: no marker in its path, a listed suffix on its name
AcceptedFile(f) ==
    /\ ~HasGitMarker(f)
    /\ \E e \in Range(ALLOWED_EXTENSIONS) : IsLiteralSuffix(e, FileRec(f).name)

AcceptedOnDisk == {f \in OnDisk : AcceptedFile(f)}

CycleRaised == pc \in {"sp_except", "main_except"}
MirrorReturned == pc \in {"sp_after_mirror", "returned"}
\* the mirror sync of this cycle has returned v
SyncResultIs(v) == repo_synced = (IF v THEN "True" ELSE "False")
Is2xx(status_code) == 200 <= status_code /\ status_code <= 299

(***************************************************************************)
(* Claims.                                                                 *)
(***************************************************************************)
\* C1: whatever exception a sync cycle raises, the daemon loop catches it, the
\* process never reaches an exited-on-error state, and the next iteration of the
\* sync cycle is subsequently started.
C1_DaemonLoopSurvives ==
    /\ [](pc # "exited")
    /\ [][pc = "main_except" => (pc' = "main_sleep" /\ exc' = NoExc)]_vars
    /\ ((pc = "main_except") ~> (pc = "sp_ensure"))

\* C1 witness: a cycle has raised and the exception is at the loop's handler
C1_Witness == pc = "main_except" /\ exc.type = "KeyError"

\* C2: a single file's failure never aborts the cycle: whatever way the processing
\* of an accepted file fails, the cycle does not raise (so the files after it are
\* still handed to the uploader and the final count is logged).
C2_FileFailureNeverAborts == failed # {} => ~CycleRaised

\* C3: the registration call is in flight only after the upload call of the same
\* file was answered with a 2xx status.
C3_RegistrationOnlyAfter2xx ==
    pc = "add_post" => (response.file = request.file /\ Is2xx(response.status_code))

NewCmds == IF Len(cmds') > Len(cmds) THEN {cmds'[i] : i \in (Len(cmds) + 1)..Len(cmds')} ELSE {}

\* C5: once the mirror directory holds .git, every later mirror sync runs pull and
\* never clone, the directory and its metadata are never removed, and a sync whose
\* pull fails returns false and leaves the files on disk as they were.
C5_MirrorUpdatedInPlace ==
    [][ /\ dirExists => dirExists'
        /\ gitMeta => gitMeta'
        /\ gitMeta => \A c \in NewCmds : c.cmd # "git clone"
        /\ (gitMeta /\ pc = "cp_try" /\ NewCmds # {}) =>
              \A c \in NewCmds : c.cmd = "git pull"
        /\ \A c \in NewCmds :
              (c.cmd = "git pull" /\ c.rc # 0) =>
                  (SyncResultIs(FALSE)' /\ files' = files /\ MirrorReturned')
      ]_vars

\* C5 witness: an existing mirror with files, whose update has just failed
C5_Witness ==
    /\ MirrorReturned /\ gitMeta /\ files # {} /\ SyncResultIs(FALSE)
    /\ cmds # << >> /\ cmds[Len(cmds)].cmd = "git pull" /\ cmds[Len(cmds)].rc # 0

\* C6: with no repository URL configured the mirror sync returns false, runs no
\* external command and leaves the disk as it was (the mirror directory is not
\* created).
C6_NoUrlIsNoOp ==
    /\ [][ (pc = "cp_entry" /\ REPO_URL = "") =>
              /\ MirrorReturned'
              /\ SyncResultIs(FALSE)'
              /\ cmds' = cmds
              /\ disk' = disk
              /\ exc' = exc ]_vars
    /\ []((MirrorReturned /\ REPO_URL = "") => (SyncResultIs(FALSE) /\ cmds = << >>))

\* C6 witness: the mirror sync has returned without a URL and there is still no
\* mirror directory
C6_Witness ==
    pc = "returned" /\ REPO_URL = "" /\ SyncResultIs(FALSE) /\ ~dirExists /\ cmds = << >>

\* C7: the mirror sync returns true exactly when its clone or pull command was run
\* and exited with status 0; a failing credential command does not keep the clone
\* or pull from being attempted; a failure of credential configuration, of URL
\* construction, of clone or of pull yields false and no exception; the only
\* exception that leaves the function comes from creating the mirror directory.
C7_MirrorResult ==
    /\ MirrorReturned =>
          /\ repo_synced \in {"True", "False"}
          /\ SyncResultIs(TRUE) <=>
                (/\ cmds # << >>
                 /\ cmds[Len(cmds)].cmd \in {"git clone", "git pull"}
                 /\ cmds[Len(cmds)].rc = 0)
          /\ (REPO_URL # "" /\ get_authenticated_repo_url.raised = "none") =>
                (cmds # << >> /\ cmds[Len(cmds)].cmd \in {"git clone", "git pull"})
          /\ exc = NoExc
    /\ pc = "raised" =>
          /\ exc.origin = "ensure_directory"
          /\ exc.type \in {"PermissionError", "OSError"}
          /\ \A i \in DOMAIN cmds : cmds[i].cmd \notin {"git clone", "git pull"}

\* C7 witness: the credential command failed and the clone that followed succeeded
C7_Witness ==
    /\ pc = "returned" /\ SyncResultIs(TRUE) /\ Len(cmds) = 2
    /\ cmds[1].cmd = "git config user.name" /\ cmds[1].rc # 0
    /\ cmds[2].cmd = "git clone" /\ cmds[2].rc = 0

\* C8: when the mirror sync returned false the cycle does not raise, and at its
\* final count log every accepted file on disk has been handed to the uploader.
C8_FalseSyncStillUploadsAll ==
    SyncResultIs(FALSE) =>
        /\ ~CycleRaised
        /\ pc = "sp_done" => handed = AcceptedOnDisk

C10_FilterIsSuffixMembership ==
    /\ [](pc = "filter_done" =>
            (allowed <=> \E e \in Range(ALLOWED_EXTENSIONS) : IsLiteralSuffix(e, filename)))
    /\ [][pc = "filter_done" => allowed' = allowed]_vars

\* C10 witness: a name accepted through the second entry of the list only, while an
\* entry that differs from its ending in case alone does not match
C10_Witness ==
    /\ pc = "filter_done" /\ allowed
    /\ filename = << "m", ".", "m" >>
    /\ ALLOWED_EXTENSIONS = << << ".", "M" >>, << ".", "m" >> >>

\* the scan of this cycle has been entered: the mirror sync of the cycle returned
ScanEntered == entry = "main" /\ repo_synced # "unset"
\* the cycle is over: sync_process returned, or its exception has reached main
CycleOver == pc \in {"sp_done", "main_except"}

\* C11: in every cycle that gets to its scan, the files handed to the uploader are
\* exactly the files under the mirror directory whose path has no .git in it and
\* whose name the filter accepts.
C11_HandedExactlyTheAccepted ==
    (ScanEntered /\ CycleOver) =>
        handed = {f \in OnDisk : ~HasGitMarker(f) /\ is_allowed_extension(walk_name(f))}

\* C11, the part that holds in every state: whatever has been handed over or is in
\* flight is a file on disk with no .git in its path and an accepted name.
C11_NothingElseIsHanded ==
    /\ \A f \in handed : f \in OnDisk /\ ~HasGitMarker(f) /\ AcceptedFile(f)
    /\ request # NoRequest => request.file \in handed

\* C11, the part that holds of a cycle that reaches its final count log
C11_CompletedScanHandsAll ==
    (pc = "sp_done") => \A f \in OnDisk : f \in handed <=> AcceptedFile(f)

\* s without its leading and trailing whitespace
Trimmed(s) ==
    LET black == {i \in 1..Len(s) : s[i] # " "}
    IN  IF black = {} THEN << >>
        ELSE SubSeq(s, CHOOSE i \in black : \A j \in black : i <= j,
                       CHOOSE i \in black : \A j \in black : i >= j)

\* C12: run_command on exit status 0 returns the command's output trimmed when
\* hide_output is true and the empty string when it is false; on a non-zero exit
\* status it raises the command error with that exit status.
C12_RunCommandContract ==
    pc = "run_done" =>
        IF command.returncode = 0
        THEN /\ returned.raised = "none"
             /\ returned.value = (IF hide_output THEN Trimmed(command.stdout) ELSE << >>)
        ELSE /\ returned.raised = "CalledProcessError"
             /\ returned.returncode = command.returncode

\* C12, what the code does: on exit status 0 the empty string comes back whatever
\* the output and the flag; on a non-zero exit status the command error is raised.
C12_EmptyOnEverySuccess ==
    pc = "run_done" =>
        IF command.returncode = 0
        THEN returned.raised = "none" /\ returned.value = << >>
        ELSE returned.raised = "CalledProcessError" /\ returned.returncode = command.returncode

IsUpload(r)       == r.endpoint = "/api/v1/files/"
IsRegistration(r) == r.endpoint = "/api/v1/knowledge/{id}/file/add"

\* C13: files are processed one at a time in the order the scan yields them: an
\* HTTP call is in flight only while the program waits for it, for the file at
\* hand; a call is issued only when none is in flight, or as the registration
\* that follows the answer to the same file's upload; and the next file is taken
\* from the scan only when every file handed over before has been dealt with
\* (its call to the uploader has returned and been counted) and no call is in flight.
C13_OneFileAtATime ==
    /\ [](request # NoRequest => (pc \in {"up_post", "add_post"} /\ request.file = file))
    /\ [](pc \in {"up_open", "up_post", "add_post", "sp_count"} =>
            (file \in handed /\ files_uploaded = Cardinality(handed) - 1))
    /\ [][(request' # request /\ request' # NoRequest) =>
            \/ request = NoRequest /\ IsUpload(request') /\ request'.file = file
            \/ /\ IsUpload(request) /\ IsRegistration(request')
               /\ request'.file = request.file]_vars
    /\ [][(handed' # handed /\ handed' # {}) =>
            /\ pc = "sp_loop" /\ request = NoRequest
            /\ files_uploaded = Cardinality(handed)
            /\ \E g \in remaining \ handed : handed' = handed \cup {g} /\ file' = g]_vars

\* C13 witness: the upload call of a second file is in flight after the first
\* file's upload and registration calls have both been answered without failure
C13_Witness ==
    /\ pc = "up_post" /\ IsUpload(request)
    /\ Cardinality(handed) = 2 /\ files_uploaded = 1 /\ failed = {}

\* upload_to_webui is through with the file at hand: it returned or raised
UploaderLeft == pc \in {"sp_count", "sp_except"} /\ file # -1
\* the upload call of the file at hand was answered 2xx with an identifier in the body
UploadSucceeded ==
    response.file = file /\ Is2xx(response.status_code) /\ response.body.kind = "id"
\* the upload call of the file at hand failed in transport or was answered non-2xx
UploadFailed ==
    calls.upload = 1 /\ (response.file # file \/ ~Is2xx(response.status_code))

\* C14: for each file handed over, at most one upload call and at most one
\* registration call are issued in a cycle; when the uploader is through with the
\* file, exactly two calls were issued if the upload succeeded, and one call, with
\* no registration, if the upload itself failed.
C14_CallBudget ==
    /\ calls.upload <= 1 /\ calls.register <= 1
    /\ (UploaderLeft /\ UploadSucceeded) => calls = [upload |-> 1, register |-> 1]
    /\ (UploaderLeft /\ UploadFailed) => calls = [upload |-> 1, register |-> 0]

\* C14, the part that holds: never more than one call of each kind for a file, a
\* registration only after an upload call, two calls after a 2xx answer with an id
C14_AtMostOneOfEach ==
    /\ calls.upload <= 1 /\ calls.register <= calls.upload
    /\ (UploaderLeft /\ UploadSucceeded) => calls = [upload |-> 1, register |-> 1]
    /\ [][(handed' # handed /\ handed' # {}) => \E g \in remaining \ handed : handed' = handed \cup {g}]_vars

\* The order of the phases of an iteration of main: the mirror sync has returned
\* before a file is handed over or a call issued; the sleep begins only when the
\* cycle is over, with no call in flight and no exception pending; a cycle begins
\* only at the loop head, which is reached only through one sleep of SYNC_INTERVAL
\* seconds.
PhaseOrder ==
    /\ []((handed # {} \/ request # NoRequest) => (mirror_calls = 1 /\ repo_synced # "unset"))
    /\ [](pc = "main_sleep" => (request = NoRequest /\ exc = NoExc /\ slept = 0))
    /\ [][(pc' = "main_sleep" /\ pc # "main_sleep") => pc \in {"sp_done", "main_except"}]_vars
    /\ [][pc = "main_sleep" => (pc' = "main_loop" /\ slept' = SYNC_INTERVAL)]_vars
    /\ [][(pc' = "main_loop" /\ pc # "main_loop") => pc = "main_sleep"]_vars
    /\ [][pc' = "sp_ensure" => (pc = "main_loop" /\ slept \in {0, SYNC_INTERVAL})]_vars
    /\ [][pc' = "cp_entry" => (pc = "sp_ensure" /\ mirror_calls = 0)]_vars

\* C15 as claimed: in every iteration the mirror sync is invoked exactly once, and
\* completes before the first upload call; the uploads are over, or the cycle's
\* exception caught, before the sleep begins; exactly one sleep of the configured
\* interval lies between two consecutive cycles; cycles do not overlap.
C15_MirrorOnceInEveryIteration ==
    /\ []((entry = "main" /\ CycleOver) => mirror_calls = 1)
    /\ PhaseOrder

\* C15 as amended: the mirror sync is invoked at most once in an iteration, exactly
\* once in an iteration that completes, and not at all only when the directory
\* creation at the start of the cycle failed, in which case nothing is handed
\* over; the order of the phases is as claimed.
C15_MirrorAtMostOnce ==
    /\ [](mirror_calls <= 1)
    /\ [](pc = "sp_done" => mirror_calls = 1)
    /\ []((entry = "main" /\ CycleOver /\ mirror_calls = 0) =>
            (pc = "main_except" /\ exc.origin = "ensure_directory" /\ handed = {}
             /\ cmds = << >>))
    /\ PhaseOrder

\* C15 witness: the loop head after one sleep that followed a cycle in which the
\* mirror sync ran and files were handed over
C15_Witness ==
    /\ pc = "main_loop" /\ slept = SYNC_INTERVAL
    /\ mirror_calls = 1 /\ handed # {} /\ failed # {}

\* C16: the counter is 0 when the scan of a cycle starts; when the cycle completes
\* it equals the number of files handed to the uploader in the cycle, those whose
\* attempt failed included; and a cycle whose scan finds no file in the mirror
\* directory hands over nothing, does not raise, and completes with the count 0.
C16_CounterCountsAttempts ==
    /\ [][pc = "sp_after_mirror" => (pc' = "sp_loop" /\ files_uploaded' = 0)]_vars
    /\ [](pc = "sp_done" => (files_uploaded = Cardinality(handed) /\ failed \subseteq handed))
    /\ []((ScanEntered /\ OnDisk = {} /\ pc # "sp_after_mirror") =>
            /\ pc \in {"sp_loop", "sp_done", "main_sleep", "main_loop"}
            /\ files_uploaded = 0 /\ handed = {} /\ exc = NoExc)
    /\ [][(pc = "sp_loop" /\ OnDisk = {}) => (pc' = "sp_done" /\ files_uploaded' = 0)]_vars

\* C16 witness: a completed cycle with the count 2, one of the two attempts failed
C16_Witness ==
    /\ pc = "sp_done" /\ files_uploaded = 2
    /\ Cardinality(failed) = 1

\* C16, the empty case: a completed cycle over an existing, empty mirror directory
C16_EmptyCycleReached ==
    pc = "sp_done" /\ dirExists /\ OnDisk = {} /\ files_uploaded = 0

\* the cycle at hand raised in ensure_directory at its very start (sync.py:173):
\* an exception is on its way to main and the mirror sync was never called
FailedAtStart == entry = "main" /\ CycleRaised /\ mirror_calls = 0

\* C17: when ensure_directory fails at the start of a cycle, the exception leaves
\* sync_process and reaches main; no git command was run and no HTTP call issued
\* in the cycle, and none is before the next cycle begins; main catches the
\* exception, sleeps, and begins the next cycle.
C17_DirectoryFailureSkipsCycle ==
    /\ [][(pc = "sp_ensure" /\ pc' # "cp_entry") =>
            (pc' = "sp_except" /\ exc'.origin = "ensure_directory" /\ mirror_calls' = 0)]_vars
    /\ [](FailedAtStart =>
            /\ exc.origin = "ensure_directory" /\ exc.type \in {"PermissionError", "OSError"}
            /\ cmds = << >> /\ handed = {} /\ request = NoRequest /\ calls = NoCalls)
    /\ [][FailedAtStart =>
            /\ pc = "sp_except" => (pc' = "main_except" /\ exc' = exc)
            /\ pc = "main_except" => (pc' = "main_sleep" /\ exc' = NoExc)
            /\ UNCHANGED << cmds, handed, request, mirror_calls, disk >>]_vars
    /\ []((pc = "main_sleep" /\ mirror_calls = 0) =>
            (cmds = << >> /\ handed = {} /\ request = NoRequest))
    /\ (FailedAtStart ~> (pc = "main_sleep" /\ mirror_calls = 0))
    /\ ((pc = "main_sleep" /\ mirror_calls = 0) ~> (pc = "sp_ensure"))

\* C17 witness: the exception of a failed directory creation has reached main in
\* a cycle that had accepted files to upload
C17_Witness ==
    /\ pc = "main_except" /\ mirror_calls = 0
    /\ exc.type = "PermissionError" /\ AcceptedOnDisk # {}

\* the program is inside clone_or_pull_repository
InMirrorOperation == pc \in {"cp_entry", "cp_configure", "cp_ensure", "cp_try"}

\* C18 as claimed: the state of the mirror directory (whether it exists, whether it
\* has version-control metadata, its files) is changed only by a step of the
\* mirror operation; every other step of the program leaves it as it was.
C18_OnlyMirrorChangesDirectory ==
    [][disk' # disk => InMirrorOperation]_vars

\* C18 as amended: the state of the mirror directory is changed only by a step of
\* the mirror operation, or by the first step of sync_process, which creates the
\* directory when it is absent and changes neither the files nor the metadata.
C18_OnlyMirrorOrFirstStepChangesDirectory ==
    [][disk' # disk =>
         \/ InMirrorOperation
         \/ /\ pc = "sp_ensure"
            /\ ~dirExists /\ dirExists'
            /\ UNCHANGED << gitMeta, files >>]_vars

\* C18 witness: a registration call is in flight for a file of a mirror that has
\* version-control metadata (scan, filter and upload have acted on it)
C18_Witness ==
    /\ pc = "add_post" /\ IsRegistration(request)
    /\ gitMeta /\ file \in files /\ mirror_calls = 1

\* C19: when the allow-list has an empty entry, the filter accepts every file name,
\* and in every cycle that gets to its scan every file under the mirror directory
\* whose path has no .git in it has been handed to the uploader.
C19_EmptyEntryHandsEverything ==
    (\E i \in DOMAIN ALLOWED_EXTENSIONS : ALLOWED_EXTENSIONS[i] = << >>) =>
        /\ \A f \in Files : is_allowed_extension(walk_name(f))
        /\ (ScanEntered /\ CycleOver) => \A f \in OnDisk : ~HasGitMarker(f) => f \in handed

\* C19, the part that holds: each of these values of the variable yields a list
\* with an empty entry; under such a list the filter accepts every name, a file
\* is handed over iff it is on disk with no .git in its path, and a cycle that
\* reaches its final count log has handed over all of those.
C19_EmptyEntryAcceptsEveryName ==
    /\ \E i \in DOMAIN ALLOWED_EXTENSIONS : ALLOWED_EXTENSIONS[i] = << >>
    /\ \A f \in Files \cup {MetaFile} : is_allowed_extension(walk_name(f))
    /\ \A f \in handed : f \in OnDisk /\ ~HasGitMarker(f)
    /\ pc = "sp_done" => handed = {f \in OnDisk : ~HasGitMarker(f)}

====
